---- MODULE Spec2Model ----
(***************************************************************************)
(* The configuration tree of Argos (libargos.config): typed config tree    *)
(* items (StringCti, IntegerCti, BoolCti, ChoiceCti, ColorCti), the edit   *)
(* session driven by ConfigItemDelegate, and (un)marshalling.              *)
(*                                                                         *)
(* Python values are records with a type tag.  Text is a sequence of       *)
(* one-character strings, so that parsing and formatting are computed.     *)
(***************************************************************************)
EXTENDS Integers, Sequences, FiniteSets, TLC

\* ------------------------------------------------------------------ bounds
\* Number of item slots below the root of the config tree.
NumNodes == 2
\* Largest number of keys in a mapping handed to unmarshall.
MaxCfgKeys == 1

\* --------------------------------------------------------------- Python values
Val(t, i, s, c) == [t |-> t, i |-> i, s |-> s, c |-> c]
PyNone == Val("none", 0, <<>>, <<>>)
NOT_SPECIFIED == Val("unset", 0, <<>>, <<>>)
PyBool(b) == Val("bool", IF b THEN 1 ELSE 0, <<>>, <<>>)
PyTrue == PyBool(TRUE)
PyFalse == PyBool(FALSE)
PyInt(n) == Val("int", n, <<>>, <<>>)
PyStr(s) == Val("str", 0, s, <<>>)
\* A QColor object: c holds <<red, green, blue, alpha>>, or <<>> when the colour
\* is invalid (QColor.isValid() is false).
QColor(r, g, b, a) == Val("color", 0, <<>>, <<r, g, b, a>>)
InvalidQColor == Val("color", 0, <<>>, <<>>)
QColorIsValid(q) == q.t = "color" /\ q.c # <<>>

\* The result of a call: a value, or the exception that left it.
Ok(v) == [err |-> "none", v |-> v]
Raise(e) == [err |-> e, v |-> PyNone]

\* ------------------------------------------------------------------- text
LowerAlpha == <<"a","b","c","d","e","f","g","h","i","j","k","l","m",
                "n","o","p","q","r","s","t","u","v","w","x","y","z">>
UpperAlpha == <<"A","B","C","D","E","F","G","H","I","J","K","L","M",
                "N","O","P","Q","R","S","T","U","V","W","X","Y","Z">>
DecDigits == <<"0","1","2","3","4","5","6","7","8","9">>
HexDigits == <<"0","1","2","3","4","5","6","7","8","9","a","b","c","d","e","f">>

\* Position of x in seq, 0 when absent.
IndexOf(seq, x) ==
    IF \E i \in 1..Len(seq) : seq[i] = x
    THEN CHOOSE i \in 1..Len(seq) : seq[i] = x
    ELSE 0

LowerChar(ch) ==
    IF IndexOf(UpperAlpha, ch) # 0 THEN LowerAlpha[IndexOf(UpperAlpha, ch)] ELSE ch
UpperChar(ch) ==
    IF IndexOf(LowerAlpha, ch) # 0 THEN UpperAlpha[IndexOf(LowerAlpha, ch)] ELSE ch
\* str.lower() and str.upper()
StrLower(s) == [k \in 1..Len(s) |-> LowerChar(s[k])]
StrUpper(s) == [k \in 1..Len(s) |-> UpperChar(s[k])]

IsDecDigit(ch) == IndexOf(DecDigits, ch) # 0
IsHexDigit(ch) == IndexOf(HexDigits, LowerChar(ch)) # 0
HexVal(ch) == IndexOf(HexDigits, LowerChar(ch)) - 1

RECURSIVE HexNumber(_)
HexNumber(s) ==
    IF s = <<>> THEN 0
    ELSE 16 * HexNumber(SubSeq(s, 1, Len(s) - 1)) + HexVal(s[Len(s)])

RECURSIVE DecNumber(_)
DecNumber(s) ==
    IF s = <<>> THEN 0
    ELSE 10 * DecNumber(SubSeq(s, 1, Len(s) - 1)) + (IndexOf(DecDigits, s[Len(s)]) - 1)

RECURSIVE DecText(_)
\* The decimal digits of a natural number.
DecText(n) ==
    IF n < 10 THEN <<DecDigits[n + 1]>>
    ELSE DecText(n \div 10) \o <<DecDigits[(n % 10) + 1]>>

\* Two lower-case hexadecimal digits, as "%02x" prints a channel.
Hex2(n) == <<HexDigits[(n \div 16) + 1], HexDigits[(n % 16) + 1]>>

\* --------------------------------------------------------- Python conversions
\* int(x): integers and booleans convert, text is parsed as an optionally
\* signed decimal number, None is a TypeError.
PyIntOf(x) ==
    CASE x.t = "int" -> Ok(PyInt(x.i))
      [] x.t = "bool" -> Ok(PyInt(x.i))
      [] x.t = "str" ->
            LET neg == x.s # <<>> /\ x.s[1] = "-"
                digits == IF x.s # <<>> /\ x.s[1] \in {"-", "+"} THEN Tail(x.s) ELSE x.s
            IN  IF digits # <<>> /\ \A k \in 1..Len(digits) : IsDecDigit(digits[k])
                THEN Ok(PyInt(IF neg THEN 0 - DecNumber(digits) ELSE DecNumber(digits)))
                ELSE Raise("ValueError")
      [] OTHER -> Raise("TypeError")

\* str(x)
PyStrOf(x) ==
    CASE x.t = "str" -> Ok(PyStr(x.s))
      [] x.t = "int" ->
            Ok(PyStr(IF x.i < 0 THEN <<"-">> \o DecText(0 - x.i) ELSE DecText(x.i)))
      [] x.t = "bool" ->
            Ok(PyStr(IF x.i = 1 THEN <<"T","r","u","e">> ELSE <<"F","a","l","s","e">>))
      [] OTHER -> Ok(PyStr(<<"N","o","n","e">>))

\* bool(x)
PyBoolOf(x) ==
    CASE x.t = "bool" -> Ok(PyBool(x.i = 1))
      [] x.t = "int" -> Ok(PyBool(x.i # 0))
      [] x.t = "str" -> Ok(PyBool(x.s # <<>>))
      [] OTHER -> Ok(PyFalse)

\* --------------------------------------------------------------------- QColor
\* The colour names the model knows (Qt: the SVG colour keywords and
\* "transparent", looked up without regard to case).
TxtRed == <<"r","e","d">>
TxtTransparent == <<"t","r","a","n","s","p","a","r","e","n","t">>

\* One channel of "#RGB", "#RRGGBB", "#RRRGGGBBB" or "#RRRRGGGGBBBB", as 8 bits.
HexChannel(digits) ==
    LET v == HexNumber(digits)
    IN  CASE Len(digits) = 1 -> v * 17
          [] Len(digits) = 2 -> v
          [] Len(digits) = 3 -> v \div 16
          [] OTHER -> v \div 256

\* QColor(name): QColor.setNamedColor.
QColorFromString(s) ==
    IF s = <<>> THEN InvalidQColor
    ELSE IF s[1] = "#"
    THEN LET h == Tail(s)
             n == Len(h) \div 3
         IN  IF Len(h) \in {3, 6, 9, 12} /\ \A k \in 1..Len(h) : IsHexDigit(h[k])
             THEN QColor(HexChannel(SubSeq(h, 1, n)),
                         HexChannel(SubSeq(h, n + 1, 2 * n)),
                         HexChannel(SubSeq(h, 2 * n + 1, 3 * n)), 255)
             ELSE InvalidQColor
    ELSE CASE StrLower(s) = TxtRed -> QColor(255, 0, 0, 255)
           [] StrLower(s) = TxtTransparent -> QColor(0, 0, 0, 0)
           [] OTHER -> InvalidQColor

\* QColor(x) as the colour item calls it: from text, or a copy of a QColor.
QColorOf(x) ==
    CASE x.t = "str" -> QColorFromString(x.s)
      [] x.t = "color" -> x
      [] OTHER -> InvalidQColor

\* A channel of a QColor; the channels of an invalid colour are 0.
QColorChannel(q, k) == IF q.c = <<>> THEN 0 ELSE q.c[k]

\* QColor.name(): "#rrggbb", lower case, without the alpha channel.
QColorName(q) ==
    <<"#">> \o Hex2(QColorChannel(q, 1)) \o Hex2(QColorChannel(q, 2)) \o Hex2(QColorChannel(q, 3))

\* ------------------------------------------------------------ config tree items
Kinds == {"String", "Integer", "Bool", "Choice", "Color"}

\* np.iinfo('i'): the limits of a C int, used when an IntegerCti has no bound.
IntMax == 2147483647
IntMin == (0 - IntMax) - 1

\* A config tree item.  Every variant carries all attributes; those of other
\* variants stay at None / the empty list.
Cti(kind, data, defaultData, maxLength, minValue, maxValue, stepSize, choices) ==
    [kind |-> kind, data |-> data, defaultData |-> defaultData,
     maxLength |-> maxLength, minValue |-> minValue, maxValue |-> maxValue,
     stepSize |-> stepSize, choices |-> choices]
\* An empty slot of the tree.
NoNode == Cti("none", PyNone, PyNone, PyNone, PyNone, PyNone, PyNone, <<>>)

\* Mutant: the value is stored as handed in, without int().
IntegerCti_enforceDataType_Raw(data) == Ok(data)

\* Mutant: the validity of the colour is not checked.
ColorCti_enforceDataType_Unchecked(data) == Ok(QColorOf(data))

\* Mutant: repr(data) where str(data) is meant, which quotes a text.
StringCti_enforceDataType_Repr(data) ==
    Ok(PyStr(<<"'">> \o PyStrOf(data).v.s \o <<"'">>))

StringCti_enforceDataType(data) == PyStrOf(data)

IntegerCti_enforceDataType(data) == PyIntOf(data)

BoolCti_enforceDataType(data) == PyBoolOf(data)

ChoiceCti_enforceDataType(data) == PyIntOf(data)

ColorCti_enforceDataType(data) ==
    LET qColor == QColorOf(data)
    IN  IF ~QColorIsValid(qColor) THEN Raise("ValueError") ELSE Ok(qColor)

\* cti._enforceDataType(data), dispatched on the variant.
enforceDataType(kind, data) ==
    CASE kind = "String" -> StringCti_enforceDataType(data)
      [] kind = "Integer" -> IntegerCti_enforceDataType(data)
      [] kind = "Bool" -> BoolCti_enforceDataType(data)
      [] kind = "Choice" -> ChoiceCti_enforceDataType(data)
      [] OTHER -> ColorCti_enforceDataType(data)

\* The defaultData each constructor declares.
DefaultDataArg(kind) ==
    CASE kind = "String" -> PyStr(<<>>)
      [] kind = "Integer" -> PyInt(0)
      [] kind = "Bool" -> PyFalse
      [] kind = "Choice" -> PyInt(0)
      [] OTHER -> PyStr(<<>>)

\* BaseCti.data (setter): the coercion hook runs on every assignment; when it
\* raises, the assignment does not happen.
BaseCti_setData(cti, data) ==
    LET r == enforceDataType(cti.kind, data)
    IN  IF data = NOT_SPECIFIED THEN [err |-> "none", cti |-> [cti EXCEPT !.data = cti.defaultData]]
        ELSE IF r.err # "none" THEN [err |-> r.err, cti |-> cti]
        ELSE [err |-> "none", cti |-> [cti EXCEPT !.data = r.v]]

\* BaseCti.__init__ followed by the variant's own attribute assignments:
\* defaultData is coerced, then data is assigned through the setter.
BaseCti_init(proto, data, defaultData) ==
    LET d == enforceDataType(proto.kind, defaultData)
    IN  IF d.err # "none" THEN [err |-> d.err, cti |-> NoNode]
        ELSE LET r == BaseCti_setData([proto EXCEPT !.defaultData = d.v, !.data = d.v], data)
             IN  IF r.err # "none" THEN [err |-> r.err, cti |-> NoNode] ELSE r

\* Mutant: the json is upper-cased as displayValue is.
ColorCti_dataToJson_Upper(qColor) == PyStr(StrUpper(QColorName(qColor)))

\* Converts data to a json scalar; by default the input is returned.
ColorCti_dataToJson(qColor) == PyStr(QColorName(qColor))
dataToJson(kind, data) == IF kind = "Color" THEN ColorCti_dataToJson(data) ELSE data

\* Converts a json scalar to an object for data; by default the input is returned.
ColorCti_dataFromJson(json) == QColorOf(json)
dataFromJson(kind, json) == IF kind = "Color" THEN ColorCti_dataFromJson(json) ELSE json

\* Mutant: the index itself is shown in place of the label it selects.
ChoiceCti_displayValue_Index(cti) == PyStrOf(cti.data)

\* cti.displayValue.  A Python list index i is valid for -len <= i < len, a
\* negative one counting from the end.
ChoiceCti_displayValue(cti) ==
    LET n == Len(cti.choices)
        i == cti.data.i
    IN  IF i >= n \/ i < 0 - n THEN Raise("IndexError")
        ELSE Ok(PyStr(cti.choices[IF i < 0 THEN n + i + 1 ELSE i + 1]))
ColorCti_displayValue(cti) == Ok(PyStr(StrUpper(QColorName(cti.data))))
BoolCti_displayValue(cti) == Ok(PyStr(<<>>))

\* Qt.CheckState
CheckStates == {"Checked", "Unchecked", "PartiallyChecked"}

\* BoolCti.checkState (getter)
BoolCti_checkState(cti) ==
    CASE cti.data = PyTrue -> Ok("Checked")
      [] cti.data = PyFalse -> Ok("Unchecked")
      [] cti.data = PyNone -> Ok("PartiallyChecked")
      [] OTHER -> Raise("ValueError")

\* BoolCti.checkState (setter): assigns True, False or None to self.data.
BoolCti_setCheckState(cti, checkState) ==
    CASE checkState = "Checked" -> BaseCti_setData(cti, PyTrue)
      [] checkState = "Unchecked" -> BaseCti_setData(cti, PyFalse)
      [] checkState = "PartiallyChecked" -> BaseCti_setData(cti, PyNone)
      [] OTHER -> [err |-> "ValueError", cti |-> cti]

\* Mutant: BoolCti's flags include Qt.ItemIsEditable like those of the others.
ItemIsEditable_Bool(cti) == cti.kind \in Kinds

\* cti.valueColumnItemFlags: BoolCti is user-checkable and not editable.
ItemIsEditable(cti) == cti.kind \in Kinds \ {"Bool"}
ItemIsUserCheckable(cti) == cti.kind = "Bool"

\* ------------------------------------------------------------- editor widgets
\* QLineEdit.maxLength when none is set.
QLineEditMaxLength == 32767

\* An editor widget.  widget names the Qt class; a line edit uses text,
\* maxLength and validator, a spin box value, minimum, maximum and singleStep,
\* a combo box items and value (its currentIndex), a check box value.
Editor(node, widget, text, value, maxLength, minimum, maximum, singleStep, items, validator) ==
    [node |-> node, widget |-> widget, text |-> text, value |-> value,
     maxLength |-> maxLength, minimum |-> minimum, maximum |-> maximum,
     singleStep |-> singleStep, items |-> items, validator |-> validator]

Clamp(v, lo, hi) == IF v < lo THEN lo ELSE IF v > hi THEN hi ELSE v

\* QRegExpValidator(QRegExp(r'#?[0-9A-F]{6}', Qt.CaseInsensitive)).validate:
\* Acceptable on a full match, Intermediate on a proper prefix of a match.
ColorRegExpValidate(text) ==
    LET h == IF text # <<>> /\ text[1] = "#" THEN Tail(text) ELSE text
    IN  IF Len(h) <= 6 /\ \A k \in 1..Len(h) : IsHexDigit(h[k])
        THEN IF Len(h) = 6 THEN "Acceptable" ELSE "Intermediate"
        ELSE "Invalid"

\* Mutant: the spin box is not given the item's bounds.
IntegerCti_createEditor_Unbounded(n, cti) ==
    Editor(n, "QSpinBox", <<>>, 0, 0, IntMin, IntMax, cti.stepSize.i, <<>>, FALSE)

\* Mutant: the line edit is not given the item's maxLength.
StringCti_createEditor_NoMaxLength(n, cti) ==
    Editor(n, "QLineEdit", <<>>, 0, QLineEditMaxLength, 0, 0, 0, <<>>, FALSE)

StringCti_createEditor(n, cti) ==
    Editor(n, "QLineEdit", <<>>, 0,
           IF cti.maxLength # PyNone THEN cti.maxLength.i ELSE QLineEditMaxLength,
           0, 0, 0, <<>>, FALSE)

\* A new QSpinBox holds 0; setMinimum and setMaximum force it into the range.
IntegerCti_createEditor(n, cti) ==
    LET lo == IF cti.minValue = PyNone THEN IntMin ELSE cti.minValue.i
        hi == IF cti.maxValue = PyNone THEN IntMax ELSE cti.maxValue.i
    IN  Editor(n, "QSpinBox", <<>>, Clamp(0, lo, hi), 0, lo, hi, cti.stepSize.i, <<>>, FALSE)

BoolCti_createEditor(n, cti) ==
    Editor(n, "QCheckBox", <<>>, 0, 0, 0, 0, 0, <<>>, FALSE)

\* addItems makes the first item current; an empty combo box has index -1.
ChoiceCti_createEditor(n, cti) ==
    Editor(n, "QComboBox", <<>>, IF cti.choices = <<>> THEN -1 ELSE 0,
           0, 0, 0, 0, cti.choices, FALSE)

ColorCti_createEditor(n, cti) ==
    Editor(n, "QLineEdit", <<>>, 0, QLineEditMaxLength, 0, 0, 0, <<>>, TRUE)

\* cti.createEditor, dispatched on the variant.
createEditor(n, cti) ==
    CASE cti.kind = "String" -> StringCti_createEditor(n, cti)
      [] cti.kind = "Integer" -> IntegerCti_createEditor(n, cti)
      [] cti.kind = "Bool" -> BoolCti_createEditor(n, cti)
      [] cti.kind = "Choice" -> ChoiceCti_createEditor(n, cti)
      [] OTHER -> ColorCti_createEditor(n, cti)

\* The signal connections createEditor makes.
BoolCti_connect(n) == {[node |-> n, signal |-> "clicked", slot |-> "commitAndCloseEditor"]}
ChoiceCti_connect(n) == {[node |-> n, signal |-> "activated", slot |-> "commitAndClose"]}
createEditorConnections(n, cti) ==
    CASE cti.kind = "Bool" -> BoolCti_connect(n)
      [] cti.kind = "Choice" -> ChoiceCti_connect(n)
      [] OTHER -> {}

\* Mutant: finalizeEditor leaves the connection in place.
ChoiceCti_finalizeEditor_Keep(n, conns) == conns

\* ChoiceCti.finalizeEditor: disconnects activated from commitAndClose.
ChoiceCti_finalizeEditor(n, conns) ==
    conns \ {[node |-> n, signal |-> "activated", slot |-> "commitAndClose"]}
\* cti.finalizeEditor, dispatched on the variant.
finalizeEditor(n, cti, conns) ==
    IF cti.kind = "Choice" THEN ChoiceCti_finalizeEditor(n, conns) ELSE conns

\* QLineEdit.setText truncates at maxLength and does not ask the validator.
StringCti_setEditorValue(editor, data) ==
    [editor EXCEPT !.text = SubSeq(data.s, 1, IF Len(data.s) < editor.maxLength
                                               THEN Len(data.s) ELSE editor.maxLength)]
\* QSpinBox.setValue forces the value into the range.
IntegerCti_setEditorValue(spinBox, data) ==
    [spinBox EXCEPT !.value = Clamp(data.i, spinBox.minimum, spinBox.maximum)]
BoolCti_setEditorValue(checkBox, data) ==
    [checkBox EXCEPT !.value = data.i]
\* QComboBox.setCurrentIndex: an index that names no item leaves none current.
ChoiceCti_setEditorValue(ctiEditor, index) ==
    [ctiEditor EXCEPT !.value = IF index.i >= 0 /\ index.i < Len(ctiEditor.items)
                                THEN index.i ELSE -1]
ColorCti_setEditorValue(lineEditor, qColor) ==
    [lineEditor EXCEPT !.text = StrUpper(QColorName(qColor))]

\* cti.setEditorValue, dispatched on the variant.
setEditorValue(cti, editor, data) ==
    CASE cti.kind = "String" -> StringCti_setEditorValue(editor, data)
      [] cti.kind = "Integer" -> IntegerCti_setEditorValue(editor, data)
      [] cti.kind = "Bool" -> BoolCti_setEditorValue(editor, data)
      [] cti.kind = "Choice" -> ChoiceCti_setEditorValue(editor, data)
      [] OTHER -> ColorCti_setEditorValue(editor, data)

\* Mutant: the text is returned without asking the validator.
ColorCti_getEditorValue_Unvalidated(lineEditor) ==
    Ok(PyStr(IF lineEditor.text # <<>> /\ lineEditor.text[1] = "#"
             THEN lineEditor.text ELSE <<"#">> \o lineEditor.text))

StringCti_getEditorValue(editor) == Ok(PyStr(editor.text))
IntegerCti_getEditorValue(spinBox) == Ok(PyInt(spinBox.value))
BoolCti_getEditorValue(checkBox) == Ok(PyBool(checkBox.value = 1))
ChoiceCti_getEditorValue(ctiEditor) == Ok(PyInt(ctiEditor.value))
ColorCti_getEditorValue(lineEditor) ==
    LET text == IF lineEditor.text # <<>> /\ lineEditor.text[1] = "#"
                THEN lineEditor.text ELSE <<"#">> \o lineEditor.text
    IN  IF lineEditor.validator /\ ColorRegExpValidate(text) # "Acceptable"
        THEN Raise("InvalidInputError")
        ELSE Ok(PyStr(text))

\* cti.getEditorValue, dispatched on the variant.
getEditorValue(cti, editor) ==
    CASE cti.kind = "String" -> StringCti_getEditorValue(editor)
      [] cti.kind = "Integer" -> IntegerCti_getEditorValue(editor)
      [] cti.kind = "Bool" -> BoolCti_getEditorValue(editor)
      [] cti.kind = "Choice" -> ChoiceCti_getEditorValue(editor)
      [] OTHER -> ColorCti_getEditorValue(editor)

\* What the widget holds, as the user sees it.
EditorContent(editor) ==
    IF editor.widget = "QLineEdit" THEN PyStr(editor.text) ELSE PyInt(editor.value)

RECURSIVE TypeInto(_, _)
\* The user types the characters of input into a line edit: a character that
\* would exceed maxLength, or that the validator finds Invalid, is refused.
TypeInto(editor, input) ==
    IF input = <<>> THEN editor
    ELSE LET t == Append(editor.text, Head(input))
             ok == /\ Len(t) <= editor.maxLength
                   /\ editor.validator => ColorRegExpValidate(t) # "Invalid"
         IN  TypeInto(IF ok THEN [editor EXCEPT !.text = t] ELSE editor, Tail(input))

\* --------------------------------------------------------------------- inputs
TxtEmpty == <<>>
TxtAbcdef == <<"a","b","c","d","e","f">>
TxtColor == <<"#","1","A","2","B","3","C">>
TxtShortHex == <<"#","1","2","3">>
TxtFour == <<"4">>
\* The texts handed to the model and found in json mappings.
Texts == {TxtEmpty, TxtAbcdef, TxtColor, TxtFour, TxtTransparent}
\* The texts a user types into a line edit.
TypedTexts == {TxtEmpty, TxtAbcdef, TxtColor, TxtShortHex}
Ints == {-1, 4, 5, 15}

\* The raw values handed to the model and found in json mappings.
RawInputs == {PyNone, PyTrue} \cup {PyInt(i) : i \in Ints} \cup {PyStr(t) : t \in Texts}

\* A colour item is handed text (json, editor text, the declared default) or a
\* QColor; QColor's integer overloads are left out of the model.
AcceptsRaw(kind, raw) == kind = "Color" => raw.t \in {"str", "color"}

Nodes == 1..NumNodes

\* The trees the model builds: a first item of any variant, followed by
\* ColorCti siblings.
SlotKinds(n) == IF n = 1 THEN Kinds ELSE {"Color"}

\* The labels of a ChoiceCti built with choices.
ChoiceLabels == << <<"a">>, <<"b">>, <<"c">> >>

\* The attribute combinations items are built with: the constructor's defaults
\* (no maxLength, no bounds and step 1, no choices) and one other.
Protos(kind) ==
    CASE kind = "String" ->
            {Cti(kind, PyNone, PyNone, m, PyNone, PyNone, PyNone, <<>>) : m \in {PyNone, PyInt(5)}}
      [] kind = "Integer" ->
            {Cti(kind, PyNone, PyNone, PyNone, PyNone, PyNone, PyInt(1), <<>>),
             Cti(kind, PyNone, PyNone, PyNone, PyInt(0), PyInt(10), PyInt(2), <<>>)}
      [] kind = "Choice" ->
            {Cti(kind, PyNone, PyNone, PyNone, PyNone, PyNone, PyNone, c) :
                c \in {<<>>, ChoiceLabels}}
      [] OTHER -> {Cti(kind, PyNone, PyNone, PyNone, PyNone, PyNone, PyNone, <<>>)}

\* The explicit data arguments constructors are called with.
CtorData(kind) ==
    CASE kind = "String" -> {PyStr(TxtAbcdef)}
      [] kind = "Integer" -> {PyInt(15), PyStr(TxtAbcdef)}
      [] kind = "Bool" -> {PyTrue}
      [] kind = "Choice" -> {PyInt(1)}
      [] OTHER -> {PyStr(TxtColor), PyStr(TxtAbcdef)}

\* The explicit defaultData arguments constructors are called with.
CtorDefaults(kind) ==
    CASE kind = "Integer" -> {PyStr(TxtAbcdef)}
      [] kind = "Bool" -> {PyNone}
      [] kind = "Color" -> {PyStr(TxtColor)}
      [] OTHER -> {}

\* ---------------------------------------------------------------------- state
VARIABLES
    tree,         \* slot -> the config tree item in it, or NoNode
    session,      \* the view's edit session: "Closed" or "EditorOpen"
    editors,      \* the editor widgets that exist (created and not released)
    connections,  \* the signal connections that exist
    prev,         \* the tree before the last operation
    last          \* the last operation, its input and the exception it raised

\* The application object (ArgosApplication).
VARIABLES
    mainWindows,    \* the main windows that are open
    settingsSaved,  \* _settingsSaved
    debugging,      \* the DEBUGGING flag of the build
    quitCalled,     \* quit has run: the event loop is over
    saveLog,        \* the calls of saveSettings made so far, in order
    appLast         \* the last operation on the application and how it ended

\* The test walk dialog (TestWalkDialog).
VARIABLES
    isOngoing,        \* _isOngoing
    currentTestName,  \* _currentTestName
    results,          \* _results
    editorText,       \* the lines of the dialog's text editor
    curPathLabel,     \* the text of the current-path label
    buttons,          \* the enabled state of the three tool buttons
    checkBoxes,       \* the two check boxes of the dialog
    rootItems,        \* the paths of the root items of the repository tree
    stack,            \* the walkRepoNodes calls that have not returned, innermost last
    walkLast          \* the last step of the dialog and what it did

ctiVars == <<tree, session, editors, connections, prev, last>>
appVars == <<mainWindows, settingsSaved, debugging, quitCalled, saveLog, appLast>>
walkVars == <<isOngoing, currentTestName, results, editorText, curPathLabel, buttons,
              checkBoxes, rootItems, stack, walkLast>>
vars == <<ctiVars, appVars, walkVars>>

NoCfg == [n \in Nodes |-> NOT_SPECIFIED]
\* A record of the last operation: its name, the slot and variant it addressed,
\* its input (raw; dflt is a constructor's defaultData argument, cfg the mapping
\* handed to unmarshall) and the exception it raised ("none" when it returned).
Op(op, n, kind, raw, err) ==
    [op |-> op, n |-> n, kind |-> kind, raw |-> raw, dflt |-> NOT_SPECIFIED,
     cfg |-> NoCfg, err |-> err]

\* The config tree before any item is built, with no edit session.
CtiIdle ==
    /\ tree = [n \in Nodes |-> NoNode]
    /\ session = "Closed"
    /\ editors = {}
    /\ connections = {}
    /\ prev = [n \in Nodes |-> NoNode]
    /\ last = Op("init", 0, "none", PyNone, "none")

\* A record of the last operation on the application: its name, the window it
\* was about (0: none), the number of windows before it, whether it called
\* saveSettings, whether saving failed, and whether an exception left it.
AppOp(op, w, windows, attempted, failed, raised) ==
    [op |-> op, w |-> w, windows |-> windows, attempted |-> attempted,
     failed |-> failed, raised |-> raised]

\* ArgosApplication.__init__: no window, nothing saved.
AppIdle ==
    /\ mainWindows = {}
    /\ settingsSaved = FALSE
    /\ debugging = FALSE
    /\ quitCalled = FALSE
    /\ saveLog = <<>>
    /\ appLast = AppOp("init", 0, 0, FALSE, FALSE, FALSE)

\* No test name is set (None).
NoTestName == <<>>

\* The repository tree the main window shows: for every node path its nodeName
\* and the paths of its children, in row order.
RepoTree ==
    [p \in {"/a", "/a/_b", "/a/_b/c", "/a/d", "/_e"} |->
        CASE p = "/a"      -> [nodeName |-> <<"a">>,      children |-> <<"/a/_b", "/a/d">>]
          [] p = "/a/_b"   -> [nodeName |-> <<"_", "b">>, children |-> <<"/a/_b/c">>]
          [] p = "/a/_b/c" -> [nodeName |-> <<"c">>,      children |-> <<>>]
          [] p = "/a/d"    -> [nodeName |-> <<"d">>,      children |-> <<>>]
          [] p = "/_e"     -> [nodeName |-> <<"_", "e">>, children |-> <<>>]]
NodePaths == DOMAIN RepoTree
\* rootItems() of the repository with every file open.
AllRootItems == <<"/a", "/_e">>
\* The root of the tree a node is in.
RootOf(p) == IF p = "/_e" THEN "/_e" ELSE "/a"

\* A call of walkRepoNodes that has not returned: the node paths it was given,
\* those its loop has
\* still to look up, the nodes _visitNodes has still to be called on (in call
\* order), where the call on the node cur stands (pc, idx), whether it is inside
\* processEvents, its nodesVisited, the nodes it selected, and whether the walk
\* was aborted.
Frame(nodePaths) ==
    [given |-> nodePaths, nodePaths |-> nodePaths, agenda |-> <<>>, pc |-> "loop",
     idx |-> 0, cur |-> "", inEvents |-> FALSE, nodesVisited |-> 0, selected |-> <<>>,
     aborted |-> FALSE]
NoFrame == Frame(<<>>)

\* A record of the last step of the dialog: the method, the node it was about
\* ("" when none), its outcome, the walk it was a step of as it was before the
\* step (NoFrame when none) and the number of walks that had not returned.
WalkOp(op, node, outcome, frame, depth) ==
    [op |-> op, node |-> node, outcome |-> outcome, frame |-> frame, depth |-> depth]

\* TestWalkDialog._updateButtons
updateButtons(ongoing) ==
    [walkAll |-> ~ongoing, walkCurrent |-> ~ongoing, abortWalk |-> ongoing]

\* TestWalkDialog.__init__: no walk, no results, the walk buttons enabled.
WalkIdle ==
    /\ isOngoing = FALSE
    /\ currentTestName = NoTestName
    /\ results = <<>>
    /\ editorText = <<>>
    /\ curPathLabel = ""
    /\ buttons = updateButtons(FALSE)
    /\ checkBoxes = [allInspectors |-> FALSE, allDetailTabs |-> FALSE]
    /\ rootItems = AllRootItems
    /\ stack = <<>>
    /\ walkLast = WalkOp("init", "", "none", NoFrame, 0)

Init == CtiIdle /\ AppIdle /\ WalkIdle

Built(n) == tree[n] # NoNode

\* ----------------------------------------------------------------- operations
\* An inspector builds the next item of its config tree.
Construct(n, proto, data, defaultData) ==
    /\ session = "Closed"
    /\ ~Built(n)
    /\ n > 1 => Built(n - 1)
    /\ LET r == BaseCti_init(proto, data, defaultData)
       IN  /\ tree' = IF r.err = "none" THEN [tree EXCEPT ![n] = r.cti] ELSE tree
           /\ last' = [Op("construct", n, proto.kind, data, r.err) EXCEPT !.dflt = defaultData]
    /\ prev' = tree
    /\ UNCHANGED <<appVars, walkVars>>
    /\ UNCHANGED <<session, editors, connections>>

\* cti.checkState = checkState
SetCheckState(n, checkState) ==
    /\ session = "Closed"
    /\ Built(n)
    /\ tree[n].kind = "Bool"
    /\ LET r == BoolCti_setCheckState(tree[n], checkState)
       IN  /\ tree' = [tree EXCEPT ![n] = r.cti]
           /\ last' = Op("checkState", n, "Bool", PyStr(<<checkState>>), r.err)
    /\ prev' = tree
    /\ UNCHANGED <<appVars, walkVars>>
    /\ UNCHANGED <<session, editors, connections>>

\* ConfigTreeModel.setData(index, value, Qt.EditRole): cti.data = value.  The
\* item's coercion decides; a rejected value leaves the item as it was.
ConfigTreeModel_setData(t, n, value) ==
    LET r == BaseCti_setData(t[n], value)
    IN  [err |-> r.err, tree |-> [t EXCEPT ![n] = r.cti]]

ModelSetData(n, raw) ==
    /\ session = "Closed"
    /\ Built(n)
    /\ AcceptsRaw(tree[n].kind, raw)
    /\ LET r == ConfigTreeModel_setData(tree, n, raw)
       IN  /\ tree' = r.tree
           /\ last' = Op("setData", n, tree[n].kind, raw, r.err)
    /\ prev' = tree
    /\ UNCHANGED <<appVars, walkVars>>
    /\ UNCHANGED <<session, editors, connections>>

\* ---------------------------------------------------------------- edit session
\* The columns of the config tree: the item's name and its value.
Columns == {"name", "value"}

\* ConfigTreeModel.flags(index): the name column is read-only, the value column
\* carries the item's valueColumnItemFlags.
CellIsEditable(cti, column) == column = "value" /\ ItemIsEditable(cti)

\* The editor of the open session.
TheEditor == CHOOSE e \in editors : TRUE

\* The view starts editing the value cell of item n: ConfigItemDelegate
\* .createEditor, then .setEditorData.  The view edits only cells whose flags
\* include Qt.ItemIsEditable, and one cell at a time.
OpenEditor(n) ==
    /\ session = "Closed"
    /\ Built(n)
    /\ CellIsEditable(tree[n], "value")
    /\ LET cti == tree[n]
           editor == createEditor(n, cti)
       IN  /\ editors' = editors \cup {setEditorValue(cti, editor, cti.data)}
           /\ connections' = connections \cup createEditorConnections(n, cti)
    /\ session' = "EditorOpen"
    /\ last' = Op("open", n, tree[n].kind, tree[n].data, "none")
    /\ prev' = tree
    /\ UNCHANGED <<appVars, walkVars>>
    /\ UNCHANGED tree

\* The view is asked to edit a cell whose flags lack Qt.ItemIsEditable: it
\* refuses, and the delegate's createEditor is not called.
EditRefused(n, column) ==
    /\ session = "Closed"
    /\ Built(n)
    /\ ~CellIsEditable(tree[n], column)
    /\ last' = Op("edit", n, tree[n].kind, PyStr(<<column>>), "refused")
    /\ prev' = tree
    /\ UNCHANGED <<appVars, walkVars>>
    /\ UNCHANGED <<tree, session, editors, connections>>

\* The user replaces the text of the line edit by typing input.
UserTypes(input) ==
    /\ session = "EditorOpen"
    /\ TheEditor.widget = "QLineEdit"
    /\ editors' = {TypeInto([TheEditor EXCEPT !.text = <<>>], input)}
    /\ last' = Op("type", TheEditor.node, tree[TheEditor.node].kind, PyStr(input), "none")
    /\ prev' = tree
    /\ UNCHANGED <<appVars, walkVars>>
    /\ UNCHANGED <<tree, session, connections>>

\* The user enters the number v in the spin box.  The spin box refuses a number
\* outside its range and is left holding some number inside it.
UserEntersNumber(v) ==
    /\ session = "EditorOpen"
    /\ TheEditor.widget = "QSpinBox"
    /\ LET e == TheEditor
           inside == {w \in Ints \cup {e.value} : e.minimum <= w /\ w <= e.maximum}
       IN  /\ \E w \in (IF v \in inside THEN {v} ELSE inside) :
                  editors' = {[e EXCEPT !.value = w]}
           /\ last' = Op("enter", e.node, tree[e.node].kind, PyInt(v),
                         IF v \in inside THEN "none" ELSE "refused")
    /\ prev' = tree
    /\ UNCHANGED <<appVars, walkVars>>
    /\ UNCHANGED <<tree, session, connections>>

\* The session ends: the item's finalizeEditor runs and the view releases the
\* editor widget.
CloseEditor(e, conns) == finalizeEditor(e.node, tree[e.node], conns)

\* Mutant: the item's present data is handed to the model in place of the value
\* read from the editor.
setModelData_Stale(t, editor) ==
    ConfigTreeModel_setData(t, editor.node, t[editor.node].data)

\* ConfigItemDelegate.setModelData(editor, model, index): the value read from
\* the editor goes to the model; an exception of getEditorValue leaves before
\* the model is called.
setModelData(t, editor) ==
    LET cti == t[editor.node]
        value == getEditorValue(cti, editor)
    IN  IF value.err # "none" THEN [err |-> value.err, tree |-> t]
        ELSE ConfigTreeModel_setData(t, editor.node, value.v)

\* The view commits the editor's data and closes the editor (Enter, or the
\* editor losing focus).
CommitAndClose ==
    /\ session = "EditorOpen"
    /\ LET e == TheEditor
           r == setModelData(tree, e)
       IN  /\ tree' = r.tree
           /\ connections' = CloseEditor(e, connections)
           /\ last' = Op("commit", e.node, tree[e.node].kind, EditorContent(e), r.err)
    /\ editors' = {}
    /\ session' = "Closed"
    /\ prev' = tree
    /\ UNCHANGED <<appVars, walkVars>>
 
\* The user picks item i of the combo box: activated fires, and the slot
\* connected to it commits and closes.
ComboActivated(i) ==
    /\ editors # {}
    /\ \E c \in connections : c.signal = "activated" /\ c.node = TheEditor.node
    /\ TheEditor.widget = "QComboBox"
    /\ i >= 0 /\ i < Len(TheEditor.items)
    /\ LET e == [TheEditor EXCEPT !.value = i]
           r == setModelData(tree, e)
       IN  /\ tree' = r.tree
           /\ connections' = CloseEditor(e, connections)
           /\ last' = Op("commit", e.node, tree[e.node].kind, EditorContent(e), r.err)
    /\ editors' = {}
    /\ session' = "Closed"
    /\ prev' = tree
    /\ UNCHANGED <<appVars, walkVars>>

\* The user cancels the edit (Escape): the pending value is dropped.
CancelEditor ==
    /\ session = "EditorOpen"
    /\ connections' = CloseEditor(TheEditor, connections)
    /\ last' = Op("cancel", TheEditor.node, tree[TheEditor.node].kind, EditorContent(TheEditor), "none")
    /\ editors' = {}
    /\ session' = "Closed"
    /\ prev' = tree
    /\ UNCHANGED <<appVars, walkVars>>
    /\ UNCHANGED tree

\* ------------------------------------------------------------ (un)marshalling
\* marshall: one key per item, holding the item's data as json.
Marshall(t) ==
    [n \in Nodes |-> IF t[n] = NoNode THEN NOT_SPECIFIED
                     ELSE dataToJson(t[n].kind, t[n].data)]

RECURSIVE UnmarshallFrom(_, _, _, _)
\* unmarshall, from slot n on: each item whose key is in cfg gets its data from
\* json through the setter; the first exception ends the load and propagates.
\* done is the slot of the item restored last (0: none yet).
UnmarshallFrom(t, cfg, n, done) ==
    IF n > NumNodes THEN [err |-> "none", tree |-> t, n |-> done]
    ELSE IF cfg[n] = NOT_SPECIFIED \/ t[n] = NoNode THEN UnmarshallFrom(t, cfg, n + 1, done)
    ELSE LET r == BaseCti_setData(t[n], dataFromJson(t[n].kind, cfg[n]))
         IN  IF r.err # "none" THEN [err |-> r.err, tree |-> t, n |-> n]
             ELSE UnmarshallFrom([t EXCEPT ![n] = r.cti], cfg, n + 1, n)

CfgKeys(cfg) == {n \in Nodes : cfg[n] # NOT_SPECIFIED}

RECURSIVE Cfgs(_)
\* The mappings of at most k keys.
Cfgs(k) ==
    IF k = 0 THEN {NoCfg}
    ELSE LET S == Cfgs(k - 1)
         IN  S \cup {[c EXCEPT ![n] = raw] : c \in S, n \in Nodes, raw \in RawInputs}

\* The tree is restored from a persisted mapping.
Unmarshall(cfg) ==
    /\ session = "Closed"
    /\ CfgKeys(cfg) # {}
    /\ \A n \in CfgKeys(cfg) : Built(n) /\ AcceptsRaw(tree[n].kind, cfg[n])
    /\ LET r == UnmarshallFrom(tree, cfg, 1, 0)
       IN  /\ tree' = r.tree
           /\ last' = [Op("unmarshall", r.n, IF r.n = 0 THEN "none" ELSE tree[r.n].kind,
                          PyNone, r.err) EXCEPT !.cfg = cfg]
    /\ prev' = tree
    /\ UNCHANGED <<appVars, walkVars>>
    /\ UNCHANGED <<session, editors, connections>>

\* The tree is saved and restored from what was saved.
RoundTrip ==
    /\ session = "Closed"
    /\ \E n \in Nodes : Built(n)
    /\ LET cfg == Marshall(tree)
           r == UnmarshallFrom(tree, cfg, 1, 0)
       IN  /\ tree' = r.tree
           /\ last' = [Op("roundtrip", r.n, IF r.n = 0 THEN "none" ELSE tree[r.n].kind,
                          PyNone, r.err) EXCEPT !.cfg = cfg]
    /\ prev' = tree
    /\ UNCHANGED <<appVars, walkVars>>
    /\ UNCHANGED <<session, editors, connections>>

\* ---------------------------------------------------------------- specification
Next ==
    \/ \E n \in Nodes : \E kind \in SlotKinds(n) :
         \E proto \in Protos(kind),
            data \in {NOT_SPECIFIED} \cup CtorData(kind),
            defaultData \in {DefaultDataArg(kind)} \cup CtorDefaults(kind) :
              Construct(n, proto, data, defaultData)
    \/ \E n \in Nodes, checkState \in CheckStates : SetCheckState(n, checkState)
    \/ \E n \in Nodes, raw \in RawInputs : ModelSetData(n, raw)
    \/ \E n \in Nodes : OpenEditor(n)
    \/ \E n \in Nodes, column \in Columns : EditRefused(n, column)
    \/ \E input \in TypedTexts : UserTypes(input)
    \/ \E v \in Ints : UserEntersNumber(v)
    \/ CommitAndClose
    \/ \E i \in 0..(Len(ChoiceLabels) - 1) : ComboActivated(i)
    \/ CancelEditor
    \/ \E cfg \in Cfgs(MaxCfgKeys) : Unmarshall(cfg)
    \/ RoundTrip

Spec == Init /\ [][Next]_vars

\* ================================================================ application
\* Largest number of main windows open at a time.
MaxWindows == 3
\* Largest number of closeAllWindows calls in a behaviour.
MaxCloseAll == 2

Windows == 1..MaxWindows

\* What a call of saveSettings leaves: the flag, whether it was called at all
\* (attempted) and whether an exception left it (raised).
SaveResult(saved, attempted, raised) ==
    [settingsSaved |-> saved, attempted |-> attempted, raised |-> raised]

\* Mutant: the flag is set after a successful save only, not in a finally clause.
saveSettings_NoFinally(failed) == SaveResult(~failed, TRUE, failed /\ debugging)

\* ArgosApplication.saveSettings.  failed: saving the profile raises an Exception.
\* The exception is logged and, when DEBUGGING, raised again; the finally clause
\* sets _settingsSaved either way.
saveSettings(failed) == SaveResult(TRUE, TRUE, failed /\ debugging)

\* Mutant: the _settingsSaved flag is not consulted.
saveSettingsIfNeeded_Unflagged(failed) ==
    IF Cardinality(mainWindows) <= 1
    THEN saveSettings(failed)
    ELSE SaveResult(settingsSaved, FALSE, FALSE)

\* ArgosApplication.saveSettingsIfNeeded
saveSettingsIfNeeded(failed) ==
    IF ~settingsSaved /\ Cardinality(mainWindows) <= 1
    THEN saveSettings(failed)
    ELSE SaveResult(settingsSaved, FALSE, FALSE)

\* The log with the call r of saveSettings, made by the operation by, added.
Logged(by, failed, r) ==
    IF r.attempted
    THEN Append(saveLog, [by |-> by, failed |-> failed, windows |-> Cardinality(mainWindows)])
    ELSE saveLog

\* ArgosApplication.addNewMainWindow
AddNewMainWindow(w) ==
    /\ ~quitCalled
    /\ w \notin mainWindows
    /\ mainWindows' = mainWindows \cup {w}
    /\ appLast' = AppOp("addNewMainWindow", w, Cardinality(mainWindows), FALSE, FALSE, FALSE)
    /\ UNCHANGED <<settingsSaved, debugging, quitCalled, saveLog>>
    /\ UNCHANGED <<ctiVars, walkVars>>

\* saveSettingsIfNeeded called on its own.
SaveSettingsIfNeeded(failed) ==
    /\ ~quitCalled
    /\ LET r == saveSettingsIfNeeded(failed)
       IN  /\ settingsSaved' = r.settingsSaved
           /\ saveLog' = Logged("saveSettingsIfNeeded", failed, r)
           /\ appLast' = AppOp("saveSettingsIfNeeded", 0, Cardinality(mainWindows),
                               r.attempted, r.attempted /\ failed, r.raised)
    /\ UNCHANGED <<mainWindows, debugging, quitCalled>>
    /\ UNCHANGED <<ctiVars, walkVars>>

\* A main window is closed: its closeEvent calls saveSettingsIfNeeded and then
\* removeMainWindow; an exception leaves before the window is removed.  Closing
\* the last window makes Qt emit lastWindowClosed, which is connected to quit.
CloseEvent(w, failed) ==
    /\ ~quitCalled
    /\ w \in mainWindows
    /\ LET r == saveSettingsIfNeeded(failed)
           left == IF r.raised THEN mainWindows ELSE mainWindows \ {w}
       IN  /\ settingsSaved' = r.settingsSaved
           /\ saveLog' = Logged("saveSettingsIfNeeded", failed, r)
           /\ mainWindows' = left
           /\ quitCalled' = (left = {})
           /\ appLast' = AppOp("closeEvent", w, Cardinality(mainWindows),
                               r.attempted, r.attempted /\ failed, r.raised)
    /\ UNCHANGED debugging
    /\ UNCHANGED <<ctiVars, walkVars>>

\* ArgosApplication.closeAllWindows: saveSettings, then Qt closes every window;
\* each closeEvent finds the settings saved and removes its window.
CloseAllWindows(failed) ==
    /\ ~quitCalled
    /\ Cardinality({i \in 1..Len(saveLog) : saveLog[i].by = "closeAllWindows"}) < MaxCloseAll
    /\ LET r == saveSettings(failed)
           left == IF r.raised THEN mainWindows ELSE {}
       IN  /\ settingsSaved' = r.settingsSaved
           /\ saveLog' = Logged("closeAllWindows", failed, r)
           /\ mainWindows' = left
           /\ quitCalled' = (mainWindows # {} /\ left = {})
           /\ appLast' = AppOp("closeAllWindows", 0, Cardinality(mainWindows),
                               TRUE, failed, r.raised)
    /\ UNCHANGED debugging
    /\ UNCHANGED <<ctiVars, walkVars>>

\* The application object as constructed, in a build with or without DEBUGGING.
AppInit ==
    /\ CtiIdle
    /\ WalkIdle
    /\ mainWindows = {}
    /\ settingsSaved = FALSE
    /\ debugging \in BOOLEAN
    /\ quitCalled = FALSE
    /\ saveLog = <<>>
    /\ appLast = AppOp("init", 0, 0, FALSE, FALSE, FALSE)

AppNext ==
    \/ \E w \in Windows : AddNewMainWindow(w)
    \/ \E failed \in BOOLEAN : SaveSettingsIfNeeded(failed)
    \/ \E w \in Windows, failed \in BOOLEAN : CloseEvent(w, failed)
    \/ \E failed \in BOOLEAN : CloseAllWindows(failed)

AppSpec == AppInit /\ [][AppNext]_vars

\* The child groups the settings of a profile can hold.
ChildGroups == {"window-00", "window-01", "layout"}
\* windowGroupName.startswith('window')
startswithWindow(windowGroupName) == windowGroupName \in {"window-00", "window-01"}

\* Mutant: no window is created when the profile holds no window group.
loadProfile_NoDefault(groups) ==
    1..Cardinality({g \in groups : startswithWindow(g)})

\* ArgosApplication.loadProfile: the main windows after it, one per window group
\* of the profile, or one new window when there is none.
loadProfile(groups) ==
    LET fromGroups == 1..Cardinality({g \in groups : startswithWindow(g)})
    IN  IF Cardinality(fromGroups) = 0 THEN {1} ELSE fromGroups

\* browse up to the call of execute: the application object is constructed (which
\* schedules setup), then loadProfile reads the profile, whose settings hold the
\* child groups groups.  The record's w is the number of windows made from groups.
LoadProfile(groups) ==
    /\ appLast.op = "init"
    /\ mainWindows' = loadProfile(groups)
    /\ appLast' = AppOp("loadProfile", Cardinality({g \in groups : startswithWindow(g)}),
                        Cardinality(mainWindows), FALSE, FALSE, FALSE)
    /\ UNCHANGED <<settingsSaved, debugging, quitCalled, saveLog>>
    /\ UNCHANGED <<ctiVars, walkVars>>

\* execute starts the event loop, whose first iteration fires the timer that
\* calls ArgosApplication.setup: mainWindows[0].activateWindow(), an IndexError
\* when there is no window.
Setup ==
    /\ appLast.op = "loadProfile"
    /\ appLast' = AppOp("setup",
                        IF mainWindows = {} THEN 0
                        ELSE CHOOSE w \in mainWindows : \A v \in mainWindows : w <= v,
                        Cardinality(mainWindows), FALSE, FALSE, mainWindows = {})
    /\ UNCHANGED <<mainWindows, settingsSaved, debugging, quitCalled, saveLog>>
    /\ UNCHANGED <<ctiVars, walkVars>>

\* The event loop runs and setup has been called.
Started == appLast.op \notin {"init", "loadProfile"}

\* An application started through browse: the profile is loaded, the event loop
\* starts with setup, and then the user works with the windows.
BrowseNext ==
    \/ \E groups \in SUBSET ChildGroups : LoadProfile(groups)
    \/ Setup
    \/ \E w \in Windows : Started /\ AddNewMainWindow(w)
    \/ \E failed \in BOOLEAN : Started /\ SaveSettingsIfNeeded(failed)
    \/ \E w \in Windows, failed \in BOOLEAN : Started /\ CloseEvent(w, failed)
    \/ \E failed \in BOOLEAN : Started /\ CloseAllWindows(failed)

BrowseSpec == AppInit /\ [][BrowseNext]_vars

\* ================================================================== test walk
\* Largest number of walkRepoNodes calls that have not returned.
MaxDepth == 2
\* The number of detail tabs of the repository widget (tabWidget.count()).
NumTabs == 1
\* The number of inspectors in the main window's inspectorActionGroup.
NumInspectors == 1

\* The innermost walk.
Top == stack[Len(stack)]
SetTop(f) == [stack EXCEPT ![Len(stack)] = f]
Pop == SubSeq(stack, 1, Len(stack) - 1)
\* Qt delivers events: no walk is running, or the innermost one is inside
\* processEvents.
InEventLoop == IF stack = <<>> THEN TRUE ELSE Top.inEvents
\* The innermost walk is executing its own code.
Running == stack # <<>> /\ ~Top.inEvents

\* Mutant: no node name is taken to start with '_'.
startswithUnderscore_Never(nodeName) == FALSE

\* str.startswith('_')
startswithUnderscore(nodeName) == Len(nodeName) > 0 /\ nodeName[1] = "_"
\* findItemAndIndex finds the node: its file is still in the repository.
NodeFound(p) == \E i \in 1..Len(rootItems) : rootItems[i] = RootOf(p)

\* The test names _visitNodes sets: "{}".format(nodePath) and
\* "{:11}: {}".format(name of the tab or of the inspector, nodePath).
PathTestName(p) == <<p>>
TabTestName(i, p) == <<"tab" \o ToString(i), p>>
InspectorTestName(j, p) == <<"inspector" \o ToString(j), p>>

\* appendText(text, isError): a line of the editor.
Line(text, isError) == [text |-> text, isError |-> isError]
\* '-' * 80
Separator == <<"--------">>

\* Mutant: the summary does not look at _isOngoing.
displayTestSummary_AlwaysFinished ==
    <<Line(Separator, FALSE), Line(<<"Test finished.">>, FALSE)>>

\* TestWalkDialog._displayTestSummary: the lines it appends.
displayTestSummary ==
    <<Line(Separator, FALSE),
      IF isOngoing THEN Line(<<"Test finished.">>, FALSE)
                   ELSE Line(<<"Test ABORTED">>, TRUE)>>

\* What setTestResult leaves: _results, the editor and what it did.
TestResult(res, text, outcome) == [results |-> res, editorText |-> text, outcome |-> outcome]

\* Mutant: a result for the name of the last entry is appended like any other.
setTestResult_NoMerge(success) ==
    IF ~isOngoing THEN TestResult(results, editorText, "discarded")
    ELSE IF currentTestName = NoTestName THEN TestResult(results, editorText, "ignored")
    ELSE TestResult(Append(results, [success |-> success, name |-> currentTestName]),
                    Append(editorText,
                           Line(<<IF success THEN "success" ELSE "FAILED">> \o currentTestName,
                                ~success)),
                    "recorded")

\* TestWalkDialog.setTestResult
setTestResult(success) ==
    IF ~isOngoing THEN TestResult(results, editorText, "discarded")
    ELSE IF currentTestName = NoTestName THEN TestResult(results, editorText, "ignored")
    ELSE IF results # <<>> /\ results[Len(results)].name = currentTestName
    THEN IF success = results[Len(results)].success
         THEN TestResult(results, editorText, "merged")
         ELSE TestResult(results, editorText, "AssertionError")
    ELSE TestResult(Append(results, [success |-> success, name |-> currentTestName]),
                    Append(editorText,
                           Line(<<IF success THEN "success" ELSE "FAILED">> \o currentTestName,
                                ~success)),
                    "recorded")

\* The inspector or a detail tab has updated itself and calls the slot.
SetTestResult(success) ==
    /\ LET r == setTestResult(success)
       IN  /\ results' = r.results
           /\ editorText' = r.editorText
           /\ walkLast' = WalkOp("setTestResult", "", r.outcome,
                                 IF stack = <<>> THEN NoFrame ELSE Top, Len(stack))
    /\ UNCHANGED <<isOngoing, currentTestName, curPathLabel, buttons, checkBoxes,
                   rootItems, stack>>
    /\ UNCHANGED <<ctiVars, appVars>>

\* The user toggles one of the check boxes, between two walks.
ToggleCheckBox(box) ==
    /\ stack = <<>>
    /\ checkBoxes' = [checkBoxes EXCEPT ![box] = ~@]
    /\ walkLast' = WalkOp("toggle", "", box, IF stack = <<>> THEN NoFrame ELSE Top, Len(stack))
    /\ UNCHANGED <<isOngoing, currentTestName, results, editorText, curPathLabel, buttons,
                   rootItems, stack>>
    /\ UNCHANGED <<ctiVars, appVars>>

\* The user closes a file in the repository tree; no walk is inside that file.
RemoveRootItem(r) ==
    /\ InEventLoop
    /\ \E i \in 1..Len(rootItems) : rootItems[i] = r
    /\ \A i \in 1..Len(stack) :
          /\ stack[i].pc # "loop" => RootOf(stack[i].cur) # r
          /\ \A k \in 1..Len(stack[i].agenda) : RootOf(stack[i].agenda[k]) # r
    /\ rootItems' = SelectSeq(rootItems, LAMBDA x : x # r)
    /\ walkLast' = WalkOp("removeRootItem", r, "removed",
                          IF stack = <<>> THEN NoFrame ELSE Top, Len(stack))
    /\ UNCHANGED <<isOngoing, currentTestName, results, editorText, curPathLabel, buttons,
                   checkBoxes, stack>>
    /\ UNCHANGED <<ctiVars, appVars>>

\* Mutant: abortTestWalk clears the flag and leaves the buttons as they are.
abortTestWalk_NoUpdate(op) ==
    /\ isOngoing' = FALSE
    /\ curPathLabel' = "Test walk aborted!"
    /\ stack' = [i \in 1..Len(stack) |-> [stack[i] EXCEPT !.aborted = TRUE]]
    /\ walkLast' = WalkOp(op, "", "aborted", IF stack = <<>> THEN NoFrame ELSE Top, Len(stack))
    /\ UNCHANGED <<buttons, currentTestName, results, editorText, checkBoxes, rootItems>>
    /\ UNCHANGED <<ctiVars, appVars>>

\* The body of abortTestWalk; every walk that has not returned is now aborted.
abortTestWalk(op) ==
    /\ isOngoing' = FALSE
    /\ buttons' = updateButtons(FALSE)
    /\ curPathLabel' = "Test walk aborted!"
    /\ stack' = [i \in 1..Len(stack) |-> [stack[i] EXCEPT !.aborted = TRUE]]
    /\ walkLast' = WalkOp(op, "", "aborted", IF stack = <<>> THEN NoFrame ELSE Top, Len(stack))
    /\ UNCHANGED <<currentTestName, results, editorText, checkBoxes, rootItems>>
    /\ UNCHANGED <<ctiVars, appVars>>

\* TestWalkDialog.abortTestWalk, triggered by the Abort Walk button.
AbortTestWalk ==
    /\ InEventLoop
    /\ buttons.abortWalk
    /\ abortTestWalk("abortTestWalk")

\* TestWalkDialog.reject: the user closes the dialog.
Reject ==
    /\ InEventLoop
    /\ abortTestWalk("reject")

\* walkRepoNodes up to its try block.
StartWalk(op, nodePaths) ==
    /\ Len(stack) < MaxDepth
    /\ currentTestName' = NoTestName
    /\ results' = <<>>
    /\ editorText' = <<>>
    /\ isOngoing' = TRUE
    /\ buttons' = updateButtons(TRUE)
    /\ stack' = Append(stack, Frame(nodePaths))
    /\ walkLast' = WalkOp(op, "", "started", IF stack = <<>> THEN NoFrame ELSE Top, Len(stack))
    /\ UNCHANGED <<curPathLabel, checkBoxes, rootItems>>
    /\ UNCHANGED <<ctiVars, appVars>>

\* TestWalkDialog.walkAllRepoNodes, triggered by the Walk All Items button.
WalkAllRepoNodes ==
    /\ InEventLoop
    /\ buttons.walkAll
    /\ StartWalk("walkAllRepoNodes", rootItems)

\* TestWalkDialog.walkCurrentRepoNode, triggered by the Walk Current Item button;
\* p is the current item of the repository tree.
WalkCurrentRepoNode(p) ==
    /\ InEventLoop
    /\ buttons.walkCurrent
    /\ NodeFound(p)
    /\ StartWalk("walkCurrentRepoNode", <<p>>)

\* Mutant: the walk resets its state after the summary, inside the try block, and
\* not in a finally clause: a walk that raises leaves the state as it was.
EndWalk_NoFinally(node, outcome) ==
    /\ isOngoing' = IF outcome = "returned" THEN FALSE ELSE isOngoing
    /\ currentTestName' = IF outcome = "returned" THEN NoTestName ELSE currentTestName
    /\ results' = IF outcome = "returned" THEN <<>> ELSE results
    /\ buttons' = updateButtons(isOngoing')
    /\ stack' = Pop
    /\ walkLast' = WalkOp("walkRepoNodes", node, outcome, Top, Len(stack))
    /\ UNCHANGED <<curPathLabel, checkBoxes, rootItems>>
    /\ UNCHANGED <<ctiVars, appVars>>

\* The finally clause of walkRepoNodes, and its return.
EndWalk(node, outcome) ==
    /\ isOngoing' = FALSE
    /\ currentTestName' = NoTestName
    /\ results' = <<>>
    /\ buttons' = updateButtons(FALSE)
    /\ stack' = Pop
    /\ walkLast' = WalkOp("walkRepoNodes", node, outcome, Top, Len(stack))
    /\ UNCHANGED <<curPathLabel, checkBoxes, rootItems>>
    /\ UNCHANGED <<ctiVars, appVars>>

\* The loop of walkRepoNodes takes the next node path: findItemAndIndex and the
\* assertion that the node was found.
FindItemAndIndex ==
    /\ Running
    /\ Top.pc = "loop" /\ Top.agenda = <<>> /\ Top.nodePaths # <<>>
    /\ LET p == Head(Top.nodePaths)
       IN  IF NodeFound(p)
           THEN /\ stack' = SetTop([Top EXCEPT !.nodePaths = Tail(@), !.agenda = <<p>>])
                /\ walkLast' = WalkOp("findItemAndIndex", p, "found", Top, Len(stack))
                /\ UNCHANGED <<isOngoing, currentTestName, results, editorText,
                               curPathLabel, buttons, checkBoxes, rootItems>>
                /\ UNCHANGED <<ctiVars, appVars>>
           ELSE /\ EndWalk(p, "AssertionError")
                /\ UNCHANGED editorText

\* The loop of walkRepoNodes is done: the summary, then the finally clause.
DisplayTestSummary ==
    /\ Running
    /\ Top.pc = "loop" /\ Top.agenda = <<>> /\ Top.nodePaths = <<>>
    /\ editorText' = editorText \o displayTestSummary
    /\ EndWalk("", "returned")

\* _visitNodes is called on the next node, up to where it selects the node.
VisitNodes ==
    /\ Running
    /\ Top.pc = "loop" /\ Top.agenda # <<>>
    /\ LET p == Head(Top.agenda)
           left == [Top EXCEPT !.agenda = Tail(@)]
           anyChecked == checkBoxes.allDetailTabs \/ checkBoxes.allInspectors
       IN  IF ~isOngoing
           THEN /\ stack' = SetTop(left)
                /\ walkLast' = WalkOp("_visitNodes", p, "aborted", Top, Len(stack))
                /\ UNCHANGED <<curPathLabel, currentTestName>>
           ELSE IF startswithUnderscore(RepoTree[p].nodeName)
           THEN /\ stack' = SetTop(left)
                /\ curPathLabel' = p
                /\ walkLast' = WalkOp("_visitNodes", p, "skipped", Top, Len(stack))
                /\ UNCHANGED currentTestName
           ELSE /\ stack' = SetTop([left EXCEPT !.cur = p, !.pc = "select",
                                                !.inEvents = ~anyChecked,
                                                !.nodesVisited = @ + 1])
                /\ curPathLabel' = p
                /\ currentTestName' = IF anyChecked THEN NoTestName ELSE PathTestName(p)
                /\ walkLast' = WalkOp("_visitNodes", p, "entered", Top, Len(stack))
    /\ UNCHANGED <<isOngoing, results, editorText, buttons, checkBoxes, rootItems>>
    /\ UNCHANGED <<ctiVars, appVars>>

\* processEvents returns to the walk that called it.
ProcessEventsReturn ==
    /\ stack # <<>>
    /\ Top.inEvents
    /\ stack' = SetTop([Top EXCEPT !.inEvents = FALSE])
    /\ walkLast' = WalkOp("processEvents", Top.cur, "returned", Top, Len(stack))
    /\ UNCHANGED <<isOngoing, currentTestName, results, editorText, curPathLabel, buttons,
                   checkBoxes, rootItems>>
    /\ UNCHANGED <<ctiVars, appVars>>

\* _visitNodes selects and expands its node.
SetCurrentIndex ==
    /\ Running
    /\ Top.pc = "select"
    /\ stack' = SetTop([Top EXCEPT !.selected = Append(@, Top.cur), !.pc = "tabCheck"])
    /\ walkLast' = WalkOp("setCurrentIndex", Top.cur, "selected", Top, Len(stack))
    /\ UNCHANGED <<isOngoing, currentTestName, results, editorText, curPathLabel, buttons,
                   checkBoxes, rootItems>>
    /\ UNCHANGED <<ctiVars, appVars>>

\* _visitNodes: the check box is read and the loop over the detail tabs entered
\* (pc "tabCheck"), or the loop goes to its next tab (pc "tab").
DetailTabStep ==
    /\ Running
    /\ Top.pc \in {"tabCheck", "tab"}
    /\ LET on == IF Top.pc = "tabCheck" THEN checkBoxes.allDetailTabs ELSE TRUE
           i == IF Top.pc = "tabCheck" THEN 1 ELSE Top.idx
       IN  IF on /\ i <= NumTabs
           THEN /\ currentTestName' = TabTestName(i, Top.cur)
                /\ stack' = SetTop([Top EXCEPT !.pc = "tab", !.idx = i + 1, !.inEvents = TRUE])
                /\ walkLast' = WalkOp("detailTab", Top.cur, "shown", Top, Len(stack))
           ELSE /\ stack' = SetTop([Top EXCEPT !.pc = "inspectorCheck", !.idx = 0])
                /\ walkLast' = WalkOp("detailTab", Top.cur, "done", Top, Len(stack))
                /\ UNCHANGED currentTestName
    /\ UNCHANGED <<isOngoing, results, editorText, curPathLabel, buttons, checkBoxes,
                   rootItems>>
    /\ UNCHANGED <<ctiVars, appVars>>

\* _visitNodes: the same for the loop over the inspectors; after it the calls on
\* the children come next, in row order.  hasText: the inspector's action has a
\* text; the assertion on action.text() raises when it has none.
InspectorStep(hasText) ==
    /\ Running
    /\ Top.pc \in {"inspectorCheck", "inspector"}
    /\ LET on == IF Top.pc = "inspectorCheck" THEN checkBoxes.allInspectors ELSE TRUE
           j == IF Top.pc = "inspectorCheck" THEN 1 ELSE Top.idx
       IN  IF on /\ j <= NumInspectors
           THEN IF hasText
                THEN /\ currentTestName' = InspectorTestName(j, Top.cur)
                     /\ stack' = SetTop([Top EXCEPT !.pc = "inspector", !.idx = j + 1,
                                                    !.inEvents = TRUE])
                     /\ walkLast' = WalkOp("inspector", Top.cur, "shown", Top, Len(stack))
                     /\ UNCHANGED <<isOngoing, results, editorText, curPathLabel, buttons,
                                    checkBoxes, rootItems>>
                     /\ UNCHANGED <<ctiVars, appVars>>
                ELSE /\ EndWalk(Top.cur, "AssertionError")
                     /\ UNCHANGED editorText
           ELSE /\ hasText
                /\ stack' = SetTop([Top EXCEPT !.pc = "loop", !.idx = 0,
                                               !.agenda = RepoTree[Top.cur].children \o @])
                /\ walkLast' = WalkOp("inspector", Top.cur, "done", Top, Len(stack))
                /\ UNCHANGED <<isOngoing, currentTestName, results, editorText, curPathLabel,
                               buttons, checkBoxes, rootItems>>
                /\ UNCHANGED <<ctiVars, appVars>>

\* The dialog as constructed, the repository with its files open.
WalkInit == CtiIdle /\ AppIdle /\ WalkIdle

WalkNext ==
    \/ \E success \in BOOLEAN : SetTestResult(success)
    \/ \E box \in {"allInspectors", "allDetailTabs"} : ToggleCheckBox(box)
    \/ \E r \in NodePaths : RemoveRootItem(r)
    \/ AbortTestWalk
    \/ Reject
    \/ WalkAllRepoNodes
    \/ \E p \in NodePaths : WalkCurrentRepoNode(p)
    \/ FindItemAndIndex
    \/ DisplayTestSummary
    \/ VisitNodes
    \/ ProcessEventsReturn
    \/ SetCurrentIndex
    \/ DetailTabStep
    \/ \E hasText \in BOOLEAN : InspectorStep(hasText)

WalkSpec == WalkInit /\ [][WalkNext]_vars

\* A step of the code of a walk: the innermost walk goes on, or the processEvents
\* it called returns.
WalkStep ==
    \/ FindItemAndIndex
    \/ DisplayTestSummary
    \/ VisitNodes
    \/ ProcessEventsReturn
    \/ SetCurrentIndex
    \/ DetailTabStep
    \/ \E hasText \in BOOLEAN : InspectorStep(hasText)

\* The dialog with a walk that keeps running: its code is executed step by step
\* and processEvents returns once the pending events are handled.
WalkFairSpec == WalkInit /\ [][WalkNext]_vars /\ WF_vars(WalkStep)

\* ===================================================================== claims
BuiltNodes == {n \in Nodes : Built(n)}
AllHex(s) == \A k \in 1..Len(s) : s[k] \in
    {"0","1","2","3","4","5","6","7","8","9","a","b","c","d","e","f","A","B","C","D","E","F"}

\* The text a colour editor holds is not six hexadecimal digits with an
\* optional leading "#": the editor's validation rejects it.
C1_EditorRejects ==
    /\ last.op = "commit"
    /\ last.kind = "Color"
    /\ LET t == last.raw.s
           body == IF t # <<>> /\ t[1] = "#" THEN Tail(t) ELSE t
       IN  ~(Len(body) = 6 /\ AllHex(body))

\* C1: when an edit is committed (setModelData -> setData) with a value that the
\* editor's validation or the item's coercion rejects, the commit raises and
\* every item of the tree holds exactly the data and defaultData it held before.
C1_RejectedCommitKeepsData ==
    (last.op \in {"commit", "setData"} /\ (last.err # "none" \/ C1_EditorRejects))
        => (last.err # "none" /\ tree = prev)

\* C1 witness: a commit from a colour editor whose text the validator rejected,
\* after which the tree is as before.
C1_Witness ==
    /\ last.op = "commit"
    /\ last.kind = "Color"
    /\ last.raw = PyStr(TxtShortHex)
    /\ last.err = "InvalidInputError"
    /\ tree = prev

\* A value of the declared type of a variant.
C2_ValidInstance(kind, v) ==
    CASE kind = "String" -> v.t = "str"
      [] kind = "Integer" -> v.t = "int"
      [] kind = "Bool" -> v.t \in {"bool", "none"}
      [] kind = "Choice" -> v.t = "int"
      [] OTHER -> v.t = "color" /\ Len(v.c) = 4 /\ \A k \in 1..4 : v.c[k] \in 0..255

\* C2: in every reachable state the data and the defaultData of every item are
\* values of the item's declared type.
C2_DataAlwaysTyped ==
    \A n \in BuiltNodes :
        /\ C2_ValidInstance(tree[n].kind, tree[n].data)
        /\ C2_ValidInstance(tree[n].kind, tree[n].defaultData)

\* C2 witness: a raw value of another type was handed to an item and stored
\* coerced (the integer 15 in a StringCti as the text "15").
C2_Witness ==
    /\ last.op \in {"setData", "unmarshall"}
    /\ last.kind = "String"
    /\ last.err = "none"
    /\ tree[last.n].data = PyStr(<<"1", "5">>)
    /\ prev[last.n].data # tree[last.n].data

C4_DataOf(checkState) ==
    CASE checkState = "Checked" -> PyTrue
      [] checkState = "Unchecked" -> PyFalse
      [] OTHER -> PyNone

\* C4: after checkState := s, for each of the three check states, reading
\* checkState returns s and data is True, False or None respectively.
C4_CheckStateRoundTrip ==
    last.op = "checkState" =>
        /\ last.err = "none"
        /\ BoolCti_checkState(tree[last.n]) = Ok(last.raw.s[1])
        /\ tree[last.n].data = C4_DataOf(last.raw.s[1])

\* C5: unmarshall(marshall(T)) succeeds and leaves every item with the data it
\* had, and marshalling again gives the same mapping.
C5_RoundTrip ==
    last.op = "roundtrip" =>
        /\ last.err = "none"
        /\ \A n \in Nodes : tree[n].data = prev[n].data
        /\ Marshall(tree) = last.cfg

\* The integer v lies outside the bounds of the IntegerCti cti.
C6_OutOfRange(cti, v) ==
    \/ cti.minValue # PyNone /\ v < cti.minValue.i
    \/ cti.maxValue # PyNone /\ v > cti.maxValue.i

\* C6 as stated: committing an integer outside [minValue, maxValue] to an
\* IntegerCti is rejected and the tree keeps its prior values.
C6_OutOfRangeCommitRejected ==
    (/\ last.op \in {"commit", "setData"}
     /\ last.kind = "Integer"
     /\ last.raw.t = "int"
     /\ C6_OutOfRange(prev[last.n], last.raw.i))
        => (last.err # "none" /\ tree = prev)

\* C6 as amended: a commit from the spin box of an IntegerCti never fails and
\* stores the number the spin box holds, which lies within the item's bounds.
C6_EditorCommitInRange ==
    (last.op = "commit" /\ last.kind = "Integer")
        => /\ last.err = "none"
           /\ tree[last.n].data = last.raw
           /\ ~C6_OutOfRange(tree[last.n], tree[last.n].data.i)
           /\ \A m \in Nodes \ {last.n} : tree[m] = prev[m]

\* C6 witness: an IntegerCti with bounds 0..10 whose data was 15 got 4 from a
\* commit of its spin box.
C6_Witness ==
    /\ last.op = "commit"
    /\ last.kind = "Integer"
    /\ tree[last.n].minValue = PyInt(0)
    /\ tree[last.n].maxValue = PyInt(10)
    /\ prev[last.n].data = PyInt(15)
    /\ tree[last.n].data = PyInt(4)

\* The value item n was last handed by setData or unmarshall.
C7_Handed == IF last.op = "unmarshall" THEN last.cfg[last.n] ELSE last.raw

\* C7: handing a ChoiceCti an index outside 0..len(choices)-1, by setData or
\* by unmarshall, raises and leaves the tree as it was.
C7_ChoiceIndexFailsFast ==
    (/\ last.op \in {"setData", "unmarshall"}
     /\ last.kind = "Choice"
     /\ C7_Handed.t = "int"
     /\ C7_Handed.i \notin 0..(Len(prev[last.n].choices) - 1))
        => (last.err # "none" /\ tree = prev)

\* The text s is "#" followed by six lower-case hexadecimal digits.
C8_IsLowerHex(s) ==
    /\ Len(s) = 7
    /\ s[1] = "#"
    /\ \A k \in 2..7 : s[k] \in {"0","1","2","3","4","5","6","7","8","9","a","b","c","d","e","f"}

C9_IsColorSpec(s) ==
    \/ StrLower(s) \in {TxtRed, TxtTransparent}
    \/ /\ Len(s) \in {4, 7, 10, 13}
       /\ s[1] = "#"
       /\ AllHex(Tail(s))

\* C9: an unmarshall whose mapping holds, for a ColorCti, a text that is no
\* colour specification raises; that item keeps the data it had, and every
\* ColorCti still holds a valid colour.
C9_InvalidColorFailsLoad ==
    last.op = "unmarshall" =>
        \A n \in CfgKeys(last.cfg) :
            (prev[n].kind = "Color" /\ last.cfg[n].t = "str" /\ ~C9_IsColorSpec(last.cfg[n].s))
                => /\ last.err # "none"
                   /\ tree[n].data = prev[n].data
                   /\ QColorIsValid(tree[n].data)

\* C9 witness: unmarshalling "abcdef" into a ColorCti raised ValueError.
C9_Witness ==
    /\ last.op = "unmarshall"
    /\ last.kind = "Color"
    /\ last.cfg[last.n] = PyStr(TxtAbcdef)
    /\ last.err = "ValueError"
    /\ tree = prev

\* C10: constructing an item of any variant with neither data nor defaultData
\* given succeeds.
C10_DefaultConstructionSucceeds ==
    (/\ last.op = "construct"
     /\ last.raw = NOT_SPECIFIED
     /\ last.dflt = DefaultDataArg(last.kind))
        => (last.err = "none" /\ Built(last.n))

\* C11: coercion is idempotent.  The data every item stores is a fixed point of
\* its variant's coercion, and coercing again the result of coercing a raw value
\* that setData was handed and accepted gives that same result.
C11_CoercionIdempotent ==
    /\ \A n \in BuiltNodes :
          enforceDataType(tree[n].kind, tree[n].data) = Ok(tree[n].data)
    /\ last.op = "setData" =>
          LET r == enforceDataType(last.kind, last.raw)
          IN  r.err = "none" => enforceDataType(last.kind, r.v) = r

\* C11 witness: an IntegerCti was handed the text "4", which coercion accepted
\* and changed into the integer 4.
C11_Witness ==
    /\ last.op = "setData"
    /\ last.kind = "Integer"
    /\ last.raw = PyStr(TxtFour)
    /\ last.err = "none"
    /\ tree[last.n].data = PyInt(4)

\* The value getEditorValue reads from an editor of the given variant that holds
\* content: the number of a spin box or combo box, the text of a line edit, for
\* a colour with "#" put in front when it does not start with it.
C12_ValueRead(kind, content) ==
    IF kind = "Color" /\ ~(content.s # <<>> /\ content.s[1] = "#")
    THEN PyStr(<<"#">> \o content.s)
    ELSE content

\* C12: a commit that succeeds stores in the edited item, and in no other, the
\* coercion of the value read from the editor; after a cancelled session every
\* item of the tree is as it was.
C12_CommitPushesCancelDiscards ==
    /\ (last.op = "commit" /\ last.err = "none") =>
          /\ Ok(tree[last.n].data) = enforceDataType(last.kind, C12_ValueRead(last.kind, last.raw))
          /\ tree[last.n] = [prev[last.n] EXCEPT !.data = tree[last.n].data]
          /\ \A m \in Nodes \ {last.n} : tree[m] = prev[m]
    /\ last.op = "cancel" => tree = prev

\* C12 witness: a session on a StringCti in which "abcdef" was typed ended
\* cancelled, and the item does not hold "abcdef".
C12_Witness ==
    /\ last.op = "cancel"
    /\ last.kind = "String"
    /\ last.raw = PyStr(TxtAbcdef)
    /\ tree[last.n].data # PyStr(TxtAbcdef)
    /\ session = "Closed"

\* C13: after a commit from the editor of a StringCti that has a maxLength, the
\* stored text is no longer than maxLength, whatever was typed and whatever the
\* item held before.
C13_CommitWithinMaxLength ==
    (/\ last.op = "commit"
     /\ last.kind = "String"
     /\ tree[last.n].maxLength # PyNone)
        => /\ tree[last.n].data.t = "str"
           /\ Len(tree[last.n].data.s) <= tree[last.n].maxLength.i

\* C13 witness: a StringCti with maxLength 5 holds "abcde" after a commit: of
\* the six characters of "abcdef" the line edit took five.
C13_Witness ==
    /\ last.op = "commit"
    /\ last.kind = "String"
    /\ last.err = "none"
    /\ tree[last.n].maxLength = PyInt(5)
    /\ tree[last.n].data = PyStr(SubSeq(TxtAbcdef, 1, 5))

\* The operations of an edit session.
C14_SessionOps == {"open", "type", "enter", "commit", "cancel"}

\* C14: an editor exists only for an item whose value cell is editable, never
\* for a BoolCti; a request to edit a name cell or the value cell of a BoolCti
\* opens no session; and no operation of an edit session changes a BoolCti.
C14_EditorOnlyForEditableCell ==
    /\ \A e \in editors : tree[e.node].kind # "Bool" /\ CellIsEditable(tree[e.node], "value")
    /\ last.op \in C14_SessionOps =>
          /\ last.kind # "Bool"
          /\ \A n \in Nodes : prev[n].kind = "Bool" => tree[n] = prev[n]
    /\ last.op = "edit" => (session = "Closed" /\ editors = {} /\ tree = prev)

\* C14 witness: the view was asked to edit the value cell of a BoolCti and no
\* editor was made.
C14_Witness ==
    /\ last.op = "edit"
    /\ last.kind = "Bool"
    /\ last.raw = PyStr(<<"value">>)
    /\ editors = {}
    /\ session = "Closed"

\* C15: the data of a ChoiceCti is an integer, never a label, and when it is an
\* index i in 0..len(choices)-1 displayValue is the label choices[i].
C15_DisplayValueIsLabel ==
    \A n \in BuiltNodes : tree[n].kind = "Choice" =>
        /\ tree[n].data.t = "int"
        /\ tree[n].data.i \in 0..(Len(tree[n].choices) - 1) =>
              ChoiceCti_displayValue(tree[n]) = Ok(PyStr(tree[n].choices[tree[n].data.i + 1]))

\* C15 witness: a ChoiceCti with choices a, b, c and data 1 shows "b".
C15_Witness ==
    \E n \in BuiltNodes :
        /\ tree[n].kind = "Choice"
        /\ tree[n].choices = ChoiceLabels
        /\ tree[n].data = PyInt(1)
        /\ ChoiceCti_displayValue(tree[n]) = Ok(PyStr(<<"b">>))

\* C16: every save that saveSettingsIfNeeded triggers is the first call of
\* saveSettings in the behaviour and is made with at most one window open, and
\* once saveSettings has been called _settingsSaved is true: saveSettingsIfNeeded
\* saves at most once, and never after closeAllWindows has saved.
C16_SavesAtMostOnce ==
    /\ \A i \in 1..Len(saveLog) :
          saveLog[i].by = "saveSettingsIfNeeded" => (i = 1 /\ saveLog[i].windows <= 1)
    /\ saveLog # <<>> => settingsSaved

\* C16 witness: saveSettingsIfNeeded has saved once, and a later call of it,
\* again with at most one window open, did not save.
C16_Witness ==
    /\ saveLog # <<>>
    /\ saveLog[1].by = "saveSettingsIfNeeded"
    /\ appLast.op \in {"saveSettingsIfNeeded", "closeEvent"}
    /\ appLast.windows <= 1
    /\ ~appLast.attempted

\* C17: after every call of saveSettings _settingsSaved is true, whether saving
\* failed or not; and without DEBUGGING no exception leaves the caller: after
\* closeAllWindows every window is closed, after a closeEvent its window.
C17_SavedFlagOnEveryExit ==
    appLast.attempted =>
        /\ settingsSaved
        /\ ~debugging =>
              /\ ~appLast.raised
              /\ appLast.op = "closeAllWindows" => mainWindows = {}
              /\ appLast.op = "closeEvent" => appLast.w \notin mainWindows

\* C17 witness: without DEBUGGING, saving failed inside closeAllWindows while
\* windows were open; the flag is set and the windows are closed.
C17_Witness ==
    /\ appLast.op = "closeAllWindows"
    /\ appLast.failed
    /\ ~debugging
    /\ appLast.windows >= 1
    /\ settingsSaved
    /\ mainWindows = {}
    /\ quitCalled

FinishedLine == Line(<<"Test finished.">>, FALSE)
AbortedLine == Line(<<"Test ABORTED">>, TRUE)
LastLine == editorText[Len(editorText)]

C19_WalksNeverNest == Len(stack) <= 1

\* The line setTestResult writes for an entry of _results.
ResultLine(entry) ==
    Line(<<IF entry.success THEN "success" ELSE "FAILED">> \o entry.name, ~entry.success)

\* C20: no two consecutive entries of _results have the same test name; while a
\* walk is ongoing the editor holds exactly one line per entry, in order; an
\* entry is recorded only while a walk is ongoing and a test name is set; and a
\* call of setTestResult without an ongoing walk or without a test name, or for
\* the name of the last entry, leaves _results and the editor unchanged.
C20_ResultsRecordedOnce ==
    /\ [](/\ \A i \in 1..(Len(results) - 1) : results[i].name # results[i + 1].name
          /\ isOngoing => editorText = [i \in 1..Len(results) |-> ResultLine(results[i])]
          /\ (walkLast.op = "setTestResult" /\ walkLast.outcome = "recorded") =>
                /\ isOngoing
                /\ currentTestName # NoTestName
                /\ results # <<>>
                /\ results[Len(results)].name = currentTestName)
    /\ [][walkLast'.op = "setTestResult" =>
            IF \/ ~isOngoing
               \/ currentTestName = NoTestName
               \/ (results # <<>> /\ results[Len(results)].name = currentTestName)
            THEN results' = results /\ editorText' = editorText
            ELSE Len(results') = Len(results) + 1 /\ Len(editorText') = Len(editorText) + 1]_vars

\* C20 witness: with two entries recorded, a second result for the name of the
\* last one was merged.
C20_Witness ==
    /\ walkLast.op = "setTestResult"
    /\ walkLast.outcome = "merged"
    /\ Len(results) = 2
    /\ Len(editorText) = 2

\* C21: whenever events can be processed (no walk running, or the innermost walk
\* inside processEvents) the two walk buttons are enabled exactly when
\* _isOngoing is false and the abort button exactly when it is true; and every
\* step that changes _isOngoing leaves the buttons as _updateButtons sets them.
C21_ButtonsMatchOngoing ==
    /\ [](InEventLoop => buttons = updateButtons(isOngoing))
    /\ [][isOngoing' # isOngoing => buttons' = updateButtons(isOngoing')]_vars

\* C21 witness: a walk was aborted inside processEvents; the flag is false, the
\* walk buttons are enabled and the abort button is disabled.
C21_Witness ==
    /\ walkLast.op = "abortTestWalk"
    /\ stack # <<>>
    /\ Top.inEvents
    /\ ~isOngoing
    /\ buttons.walkAll /\ buttons.walkCurrent /\ ~buttons.abortWalk

\* The idle state of the dialog.
DialogIdle == ~isOngoing /\ currentTestName = NoTestName /\ results = <<>>

\* C22: when walkRepoNodes has returned or raised the dialog is idle (_isOngoing
\* false, _currentTestName None, _results empty); it stays idle while no walk
\* is running, and a result that arrives then is discarded.
C22_IdleAfterWalk ==
    /\ walkLast.op = "walkRepoNodes" => DialogIdle
    /\ stack = <<>> => DialogIdle
    /\ (walkLast.op = "setTestResult" /\ walkLast.depth = 0) => walkLast.outcome = "discarded"

\* C22 witness: a walk that had recorded a result raised while visiting a node;
\* the dialog is idle.
C22_Witness ==
    /\ walkLast.op = "walkRepoNodes"
    /\ walkLast.outcome = "AssertionError"
    /\ ~walkLast.frame.aborted
    /\ walkLast.node = "/a/d"
    /\ editorText # <<>>
    /\ stack = <<>>
    /\ DialogIdle

RECURSIVE PreOrder(_)
\* The nodes below the node paths ps, a parent before its children and children
\* in row order, without the nodes whose name starts with '_' and without
\* their descendants.
PreOrder(ps) ==
    IF ps = <<>> THEN <<>>
    ELSE IF Head(RepoTree[Head(ps)].nodeName) = "_" THEN PreOrder(Tail(ps))
    ELSE <<Head(ps)>> \o PreOrder(RepoTree[Head(ps)].children \o Tail(ps))

\* The outermost walk has not been aborted.
WalkUnaborted == IF stack = <<>> THEN FALSE ELSE ~stack[1].aborted

C24_SetupFindsWindow ==
    /\ appLast.op = "loadProfile" =>
          /\ mainWindows # {}
          /\ appLast.w = 0 => Cardinality(mainWindows) = 1
    /\ appLast.op = "setup" =>
          /\ ~appLast.raised
          /\ appLast.w \in mainWindows

\* C24 witness: the profile held no window group, loadProfile made one window
\* and setup has activated it.
C24_Witness ==
    /\ appLast.op = "setup"
    /\ ~appLast.raised
    /\ appLast.w = 1
    /\ mainWindows = {1}
    /\ saveLog = <<>>

====
